---- MODULE Spec2Model ----
(***************************************************************************)
(* Fresto pipelines: the spreadsheet-report script                         *)
(* (fresto_report_token.py) and the warehouse-load script                  *)
(* (fresto_to_bigquery.py).  Both acquire a bearer token, page through     *)
(* five data endpoints and hand the collections to a sink.                 *)
(*                                                                         *)
(* Three specifications share the definitions below:                       *)
(*   SpecFetch  one paged_get call of either script against one endpoint   *)
(*   Spec       one pipeline run (main / build_report)                     *)
(*   SpecJoin   the four left merges of build_report                       *)
(***************************************************************************)
EXTENDS Integers, Sequences, FiniteSets, TLC

\* ------------------------------------------------------------------ bounds
MaxRecords  == 5      \* records one endpoint holds, SpecFetch
MaxPageSize == 3      \* small page sizes tried beside the code's 500
RunMaxRecords  == 2   \* records one endpoint holds, Spec
RunMaxPageSize == 2   \* page sizes of a pipeline run, Spec
MaxPrior       == 1   \* records per table loaded by an earlier run, Spec
MaxDriving     == 2   \* orderlines records, SpecJoin
MaxLookup      == 2   \* records of a collection merged in, SpecJoin
MaxKey         == 1   \* distinct non-null key values, SpecJoin

\* ------------------------------------------------------- program constants
DefaultPageSize == 500

Scripts == {"report", "warehouse"}

\* Page sizes a call is run with: the code fixes 500; the small ones make
\* multi-page fetches reachable.
PageSizes == (1 .. MaxPageSize) \cup {DefaultPageSize}

\* Statuses a data endpoint answers with.
Statuses == {200, 401, 500}

VARIABLES
    script,      \* which script runs
    pc,          \* control location of the call / run
    pagesize,    \* paged_get: pagesize
    total,       \* records the endpoint being fetched holds (R)
    page,        \* paged_get: page
    out,         \* paged_get: out
    data,        \* paged_get: data of the last iteration
    lastResp,    \* the response the last loop iteration received
    log,         \* external calls of the call / run, in order
    result,      \* what paged_get handed back: [returned, value]
    ep,          \* endpoint being fetched (index into Paths)
    args,        \* main: args.start, args.end
    creds,       \* CLIENT_ID and CLIENT_SECRET are both set
    token,       \* main / build_report: token
    collections, \* orders, orderlines, staff, products, salepoints
    li,          \* position in the sequence of load_df / to_excel calls
    tables,      \* warehouse destination: rows of each table
    sheets,      \* ExcelWriter: sheets written so far in this run
    file,        \* spreadsheet destination: the workbook at out_path
    df_ol,       \* build_report: df_ol
    report       \* build_report: report

vars == <<script, pc, pagesize, total, page, out, data, lastResp, log, result, ep,
          args, creds, token, collections, li, tables, sheets, file,
          df_ol, report>>

\* Endpoints in the order both scripts fetch them.
Paths == <<"/sales/orders", "/sales/orderlines", "/staff", "/menu/products", "/salepoints">>

Min(a, b) == IF a < b THEN a ELSE b

\* ----------------------------------------------------------- the endpoint
\* Records are numbered 1..R; an endpoint serves them in consecutive full
\* pages followed by the remainder, and empty pages after that.
RecordsOf(R) == [i \in 1 .. R |-> i]

ServerPage(R, p, n) ==
    IF p * n >= R THEN << >>
    ELSE SubSeq(RecordsOf(R), p * n + 1, Min((p + 1) * n, R))

\* Body forms: {"data": [...]}, a bare array, or no content at all (only
\* when the page holds no record).
BodyForms(recs) == IF recs = << >> THEN {"object", "array", "empty"} ELSE {"object", "array"}

Responses(R, p, n) ==
    LET recs == ServerPage(R, p, n)
    IN  [status : Statuses, form : BodyForms(recs), recs : {recs}]

NoResp == [status |-> 0, form |-> "none", recs |-> << >>]

\* ------------------------------------------------------ response parsing
\* fresto_to_bigquery.py: j = r.json() if r.content else {}
\*                        data = j.get("data", []) if isinstance(j, dict) else (j or [])
NormalizeWarehouse(resp) ==
    CASE resp.form = "empty"  -> [ok |-> TRUE, data |-> << >>]
      [] resp.form = "object" -> [ok |-> TRUE, data |-> resp.recs]
      [] resp.form = "array"  -> [ok |-> TRUE, data |-> resp.recs]

\* fresto_report_token.py: j = r.json() if r.content else {}
\*                         data = j.get("data", [])     <- a list has no .get: AttributeError
\*                         if isinstance(j, list) and not data: data = j
NormalizeReport(resp) ==
    CASE resp.form = "empty"  -> [ok |-> TRUE, data |-> << >>]
      [] resp.form = "object" -> [ok |-> TRUE, data |-> resp.recs]
      [] resp.form = "array"  -> [ok |-> FALSE, data |-> << >>]

Normalize(s, resp) == IF s = "report" THEN NormalizeReport(resp) ELSE NormalizeWarehouse(resp)

\* ---------------------------------------------- variants of paged_get
\* The same loop handing back what it has when a request fails.
PagedGetIter_ReturnsPartial(s, p, o, n, resp) ==
    IF resp.status >= 400
    THEN [next |-> "return", page |-> p, out |-> o, data |-> << >>]
    ELSE LET d == Normalize(s, resp)
         IN  IF ~d.ok
             THEN [next |-> "raise", page |-> p, out |-> o, data |-> << >>]
             ELSE IF Len(d.data) < n
                  THEN [next |-> "return", page |-> p, out |-> o \o d.data, data |-> d.data]
                  ELSE [next |-> "loop", page |-> p + 1, out |-> o \o d.data, data |-> d.data]

\* The same loop taking a 401 for the end of the data.
PagedGetIter_Swallows401(s, p, o, n, resp) ==
    IF resp.status = 401
    THEN [next |-> "return", page |-> p, out |-> o, data |-> << >>]
    ELSE IF resp.status >= 400
    THEN [next |-> "exit", page |-> p, out |-> o, data |-> << >>]
    ELSE LET d == Normalize(s, resp)
         IN  IF ~d.ok
             THEN [next |-> "raise", page |-> p, out |-> o, data |-> << >>]
             ELSE IF Len(d.data) < n
                  THEN [next |-> "return", page |-> p, out |-> o \o d.data, data |-> d.data]
                  ELSE [next |-> "loop", page |-> p + 1, out |-> o \o d.data, data |-> d.data]

\* The same loop asking again for a page that was answered with a 5xx.
PagedGetIter_RetriesServerError(s, p, o, n, resp) ==
    IF resp.status = 401
    THEN [next |-> "exit", page |-> p, out |-> o, data |-> << >>]
    ELSE IF resp.status >= 400
    THEN [next |-> "loop", page |-> p, out |-> o, data |-> << >>]
    ELSE LET d == Normalize(s, resp)
         IN  IF ~d.ok
             THEN [next |-> "raise", page |-> p, out |-> o, data |-> << >>]
             ELSE IF Len(d.data) < n
                  THEN [next |-> "return", page |-> p, out |-> o \o d.data, data |-> d.data]
                  ELSE [next |-> "loop", page |-> p + 1, out |-> o \o d.data, data |-> d.data]

\* ------------------------------------------------------------- paged_get
\* One iteration of the while-True loop, given the response to the request
\* for page p.  next: "loop" (page += 1), "return" (break; return out),
\* "exit" (SystemExit on a status >= 400), "raise" (uncaught exception).
PagedGetIter(s, p, o, n, resp) ==
    IF s = "report" /\ resp.status = 401
    THEN [next |-> "exit", page |-> p, out |-> o, data |-> << >>]
    ELSE IF resp.status >= 400
    THEN [next |-> "exit", page |-> p, out |-> o, data |-> << >>]
    ELSE LET d == Normalize(s, resp)
         IN  IF ~d.ok
             THEN [next |-> "raise", page |-> p, out |-> o, data |-> << >>]
             ELSE IF Len(d.data) < n
                  THEN [next |-> "return", page |-> p, out |-> o \o d.data, data |-> d.data]
                  ELSE [next |-> "loop", page |-> p + 1, out |-> o \o d.data, data |-> d.data]

NoResult == [returned |-> FALSE, value |-> << >>]

\* One entry of log: a token request, a page request, or a sink write.
GetEvent(e, p, t, resp) ==
    [kind |-> "get", ep |-> e, page |-> p, token |-> t, status |-> resp.status]
TokenEvent(resp) ==
    [kind |-> "token", ep |-> 0, page |-> 0, token |-> resp.field, status |-> resp.status]
SinkEvent(k, ok) ==
    [kind |-> "sink", ep |-> k, page |-> 0, token |-> "", status |-> IF ok THEN 200 ELSE 500]

Gets(l) == SelectSeq(l, LAMBDA e : e.kind = "get")
Sinks(l) == SelectSeq(l, LAMBDA e : e.kind = "sink")
TokenCalls(l) == SelectSeq(l, LAMBDA e : e.kind = "token")

\* State of the parts of a run that a lone paged_get call does not touch.
NoCollections == [k \in 1 .. Len(Paths) |-> [done |-> FALSE, recs |-> << >>]]
NoTables == [k \in 1 .. Len(Paths) |-> << >>]
NoFile == [written |-> FALSE, sheets |-> << >>]
NoFrame == [cols |-> {}, rows |-> << >>]

\* --------------------------------------------------- SpecFetch: one call
InitFetch ==
    /\ script \in Scripts
    /\ pagesize \in PageSizes
    /\ total \in 0 .. MaxRecords
    /\ ep \in 1 .. Len(Paths)
    /\ pc = "paged_get"
    /\ page = 0
    /\ out = << >>
    /\ data = << >>
    /\ lastResp = NoResp
    /\ log = << >>
    /\ result = NoResult
    /\ args = [start |-> "iso", end |-> "iso"]
    /\ creds = TRUE
    /\ token = "tok"
    /\ collections = NoCollections
    /\ li = 0
    /\ tables = NoTables
    /\ sheets = << >>
    /\ file = NoFile
    /\ df_ol = NoFrame
    /\ report = NoFrame

\* requests.get for the current page and the rest of the loop body.
FetchPage ==
    /\ pc = "paged_get"
    /\ \E resp \in Responses(total, page, pagesize) :
         LET it == PagedGetIter(script, page, out, pagesize, resp)
         IN  /\ log' = Append(log, GetEvent(ep, page, token, resp))
             /\ lastResp' = resp
             /\ page' = it.page
             /\ out' = it.out
             /\ data' = it.data
             /\ pc' = CASE it.next = "loop"   -> "paged_get"
                        [] it.next = "return" -> "returned"
                        [] it.next = "exit"   -> "exit"
                        [] it.next = "raise"  -> "raised"
             /\ result' = IF it.next = "return"
                          THEN [returned |-> TRUE, value |-> it.out]
                          ELSE result
    /\ UNCHANGED <<script, pagesize, total, ep, args, creds, token, collections, li,
                   tables, sheets, file, df_ol, report>>

NextFetch == FetchPage

SpecFetch == InitFetch /\ [][NextFetch]_vars

\* ======================================================================
\* Pipeline runs: main (fresto_to_bigquery.py), main + build_report
\* (fresto_report_token.py)
\* ======================================================================
DateInputs == {"iso", "bad"}

\* --start is required by both parsers; --end is required by the report
\* script and optional (default: today) in the warehouse script.
ArgsOf(s) ==
    IF s = "report"
    THEN [start : DateInputs, end : DateInputs]
    ELSE [start : DateInputs, end : DateInputs \cup {"absent"}]

\* Date sanity of the two main functions: TRUE when datetime.fromisoformat
\* accepts what was given.
DatesOk(s, a) ==
    IF s = "report"
    THEN a.start = "iso" /\ a.end = "iso"
    ELSE IF a.start # "iso" THEN FALSE
         ELSE IF a.end # "absent" THEN a.end = "iso" ELSE TRUE

\* Token endpoint answers: a status and what the body holds under
\* "access_token" (no such field, null, "", or a token).
TokenFields == {"missing", "null", "empty", "tok"}
TokenResponses ==
    [status : {200}, field : TokenFields] \cup [status : {401, 500}, field : {"missing"}]

\* What ends up after "Bearer " for each field value.
BearerOf(f) == CASE f = "tok" -> "tok" [] f = "empty" -> "" [] f = "null" -> "None"

\* fresto_report_token.py get_access_token, after the credentials check.
GetAccessToken(resp) ==
    IF resp.status >= 400 THEN [next |-> "exit", token |-> "unset"]
    ELSE IF resp.field \in {"missing", "null", "empty"}
         THEN [next |-> "exit", token |-> "unset"]
         ELSE [next |-> "return", token |-> BearerOf(resp.field)]

\* fresto_to_bigquery.py get_token, after the credentials check:
\* r.json()["access_token"] raises KeyError on a missing field and hands
\* back whatever else is there.
GetToken(resp) ==
    IF resp.status >= 400 THEN [next |-> "exit", token |-> "unset"]
    ELSE IF resp.field = "missing"
         THEN [next |-> "raise", token |-> "unset"]
         ELSE [next |-> "return", token |-> BearerOf(resp.field)]

AcquireToken(s, resp) == IF s = "report" THEN GetAccessToken(resp) ELSE GetToken(resp)

\* enrich: location_slug and loaded_at are added to every record of a
\* non-empty frame; loaded_at tells the rows of this run ("now") from
\* those an earlier run loaded.
Enrich(recs, at) == [i \in 1 .. Len(recs) |-> [rec |-> recs[i], loaded_at |-> at]]

\* load_df with write_disposition WRITE_TRUNCATE instead of WRITE_APPEND.
LoadDf_Truncate(table, df, ok) ==
    IF df = << >> THEN table
    ELSE IF ok THEN df ELSE table

\* load_df: the rows of the destination table after the call.  An empty
\* frame starts no load job; a load job appends all rows of the frame or,
\* when it fails, none.
LoadDf(table, df, ok) ==
    IF df = << >> THEN table
    ELSE IF ok THEN table \o df ELSE table

\* main going on to the next table after a load that raised.
AfterLoad_KeepsGoing(k, df, ok) ==
    IF k < Len(Paths) THEN "load_df" ELSE "done"

\* Where main continues after load_df for table k: an exception of the
\* load job ends the run.
AfterLoad(k, df, ok) ==
    IF df # << >> /\ ~ok THEN "raised"
    ELSE IF k < Len(Paths) THEN "load_df" ELSE "done"

\* Sheets of the workbook in the order build_report writes them.
SheetNames == <<"FinalReport", "Orders", "Orderlines", "Staff", "Products", "SalePoints">>

Terminal == {"done", "exit", "raised"}

InitRun ==
    /\ script \in Scripts
    /\ args \in ArgsOf(script)
    /\ creds \in BOOLEAN
    /\ pagesize \in 1 .. RunMaxPageSize
    /\ pc = "main"
    /\ total = 0
    /\ page = 0
    /\ out = << >>
    /\ data = << >>
    /\ lastResp = NoResp
    /\ log = << >>
    /\ result = NoResult
    /\ ep = 0
    /\ token = "unset"
    /\ collections = NoCollections
    /\ li = 0
    /\ sheets = << >>

\* The destination may hold what an earlier run loaded: the same number of
\* rows in every table.
Init ==
    /\ InitRun
    /\ \E n \in 0 .. MaxPrior :
          tables = [k \in 1 .. Len(Paths) |-> Enrich(RecordsOf(n), "earlier")]
    /\ file = NoFile
    /\ df_ol = NoFrame
    /\ report = NoFrame

\* main, date sanity.
ValidateDates ==
    /\ pc = "main"
    /\ pc' = IF DatesOk(script, args) THEN "get_token" ELSE "exit"
    /\ args' = IF script = "warehouse" /\ DatesOk(script, args) /\ args.end = "absent"
               THEN [args EXCEPT !.end = "iso"] ELSE args
    /\ UNCHANGED <<script, pagesize, total, page, out, data, lastResp, log, result, ep,
                   creds, token, collections, li, tables, sheets, file,
                   df_ol, report>>

\* get_token / get_access_token, and the start of the first fetch.
RequestToken ==
    /\ pc = "get_token"
    /\ IF ~creds
       THEN /\ pc' = "exit"
            /\ UNCHANGED <<log, token, ep, total>>
       ELSE \E resp \in TokenResponses :
              LET r == AcquireToken(script, resp)
              IN  /\ log' = Append(log, TokenEvent(resp))
                  /\ IF r.next = "return"
                     THEN /\ token' = r.token
                          /\ pc' = "paged_get"
                          /\ ep' = 1
                          /\ total' \in 0 .. RunMaxRecords
                     ELSE /\ pc' = IF r.next = "exit" THEN "exit" ELSE "raised"
                          /\ UNCHANGED <<token, ep, total>>
    /\ UNCHANGED <<script, pagesize, page, out, data, lastResp, result, args, creds,
                   collections, li, tables, sheets, file, df_ol, report>>

\* One iteration of paged_get for endpoint ep; on return the collection is
\* bound and the next fetch (or the hand-over to the sink) starts.
RunFetchPage ==
    /\ pc = "paged_get"
    /\ \E resp \in Responses(total, page, pagesize) :
         LET it == PagedGetIter(script, page, out, pagesize, resp)
         IN  /\ log' = Append(log, GetEvent(ep, page, token, resp))
             /\ CASE it.next = "loop" ->
                       /\ page' = it.page
                       /\ out' = it.out
                       /\ data' = it.data
                       /\ lastResp' = resp
                       /\ UNCHANGED <<pc, ep, total, collections, li>>
                  [] it.next = "return" ->
                       /\ collections' = [collections EXCEPT
                                             ![ep] = [done |-> TRUE, recs |-> it.out]]
                       /\ page' = 0
                       /\ out' = << >>
                       /\ data' = << >>
                       /\ lastResp' = NoResp
                       /\ IF ep < Len(Paths)
                          THEN /\ ep' = ep + 1
                               /\ total' \in 0 .. RunMaxRecords
                               /\ UNCHANGED <<pc, li>>
                          ELSE /\ pc' = IF script = "report" THEN "frames" ELSE "load_df"
                               /\ li' = 1
                               /\ UNCHANGED <<ep, total>>
                  [] it.next \in {"exit", "raise"} ->
                       /\ pc' = IF it.next = "exit" THEN "exit" ELSE "raised"
                       /\ lastResp' = resp
                       /\ UNCHANGED <<page, out, data, ep, total, collections, li>>
    /\ UNCHANGED <<script, pagesize, result, args, creds, token, tables, sheets, file,
                   df_ol, report>>

\* build_report from pd.DataFrame(orders) to the last merge.  The
\* salepoints merge selects the column salePointTitle, which exists only
\* if some salepoint record has a title: KeyError otherwise.
BuildFrames ==
    /\ pc = "frames"
    /\ \E titled \in BOOLEAN :
         pc' = IF collections[5].recs # << >> /\ ~titled THEN "raised" ELSE "to_excel"
    /\ li' = 0
    /\ UNCHANGED <<script, pagesize, total, page, out, data, lastResp, log, result, ep,
                   args, creds, token, collections, tables, sheets, file,
                   df_ol, report>>

\* main: enrich and load_df for table li.
LoadTable ==
    /\ pc = "load_df"
    /\ LET df == Enrich(collections[li].recs, "now")
       IN  \E ok \in BOOLEAN :
             /\ df = << >> => ok
             /\ tables' = [tables EXCEPT ![li] = LoadDf(@, df, ok)]
             /\ log' = IF df = << >> THEN log ELSE Append(log, SinkEvent(li, ok))
             /\ pc' = AfterLoad(li, df, ok)
             /\ li' = IF pc' = "load_df" THEN li + 1 ELSE li
    /\ UNCHANGED <<script, pagesize, total, page, out, data, lastResp, result, ep,
                   args, creds, token, collections, sheets, file, df_ol, report>>

\* build_report: one to_excel call inside the ExcelWriter block (li = 0 is
\* FinalReport, li = k the raw sheet of collection k, written when not
\* empty).  Leaving the block, normally or by an exception, closes the
\* writer, which saves the workbook with the sheets written so far.
WriteSheet ==
    /\ pc = "to_excel"
    /\ LET skip == li >= 1 /\ collections[li].recs = << >>
       IN  \E ok \in BOOLEAN :
             /\ skip => ok
             /\ log' = IF skip THEN log ELSE Append(log, SinkEvent(li, ok))
             /\ sheets' = IF skip \/ ~ok THEN sheets ELSE Append(sheets, SheetNames[li + 1])
             /\ pc' = IF ~ok THEN "raised" ELSE IF li < Len(Paths) THEN "to_excel" ELSE "done"
             /\ li' = IF pc' = "to_excel" THEN li + 1 ELSE li
             /\ file' = IF pc' = "to_excel" THEN file ELSE [written |-> TRUE, sheets |-> sheets']
    /\ UNCHANGED <<script, pagesize, total, page, out, data, lastResp, result, ep,
                   args, creds, token, collections, tables, df_ol, report>>

Next ==
    \/ ValidateDates
    \/ RequestToken
    \/ RunFetchPage
    \/ BuildFrames
    \/ LoadTable
    \/ WriteSheet

Spec == Init /\ [][Next]_vars

\* ======================================================================
\* build_report: the frames and the four left merges
\* ======================================================================
\* A frame is pd.DataFrame(records): its columns and its rows, each row a
\* function from the columns to values.  A field a record lacks is NaN.
NaN == 0
KeyVals == 0 .. MaxKey

\* pd.DataFrame of up to maxRows records whose fields are among C.
FramesOver(C, maxRows) ==
    {NoFrame} \cup
    UNION {{[cols |-> S, rows |-> r] : r \in UNION {[1 .. n -> [S -> KeyVals]] : n \in 1 .. maxRows}}
           : S \in SUBSET C}

\* The fields of each collection that the merges look at.
OrderlineCols == {"orderID", "userID", "productID", "salePointID"}
OrderCols     == {"orderID", "userID"}
StaffCols     == {"uid"}
ProductCols   == {"id"}
SalepointCols == {"salePointID", "title"}

\* df.empty
Empty(f) == f.rows = << >> \/ f.cols = {}

\* df.rename(columns = {from: to}) for one column.
Rename(f, from, to) ==
    IF from \notin f.cols THEN f
    ELSE LET cs == (f.cols \ {from}) \cup {to}
         IN  [cols |-> cs,
              rows |-> [i \in 1 .. Len(f.rows) |->
                          [c \in cs |-> IF c = to THEN f.rows[i][from] ELSE f.rows[i][c]]]]

\* df[[a, b]]
Project(f, cs) ==
    [cols |-> cs, rows |-> [i \in 1 .. Len(f.rows) |-> [c \in cs |-> f.rows[i][c]]]]

\* df.drop_duplicates(): the first of equal rows is kept.
RECURSIVE DropDuplicatesRows(_)
DropDuplicatesRows(rows) ==
    IF rows = << >> THEN << >>
    ELSE LET init == DropDuplicatesRows(SubSeq(rows, 1, Len(rows) - 1))
             last == rows[Len(rows)]
         IN  IF \E i \in 1 .. Len(init) : init[i] = last THEN init ELSE Append(init, last)

DropDuplicates(f) == [cols |-> f.cols, rows |-> DropDuplicatesRows(f.rows)]

\* The names merge gives to a column both frames have.
SuffixX(c) ==
    CASE c = "orderID" -> "orderID_x" [] c = "userID" -> "userID_x"
      [] c = "productID" -> "productID_x" [] c = "salePointID" -> "salePointID_x"
      [] OTHER -> c
SuffixY(c) ==
    CASE c = "orderID" -> "orderID_y" [] c = "userID" -> "userID_y"
      [] c = "productID" -> "productID_y" [] c = "salePointID" -> "salePointID_y"
      [] OTHER -> c

RECURSIVE Flatten(_)
Flatten(ss) == IF ss = << >> THEN << >> ELSE Head(ss) \o Flatten(Tail(ss))

\* left.merge(right, left_on = lk, right_on = rk, how = "left"): every left
\* row, in order, once per right row whose key equals its key (null keys
\* equal each other), or once with nulls when no right row matches.  A
\* column both frames have, the key of on= apart, is kept twice with the
\* suffixes _x and _y.
MergeLeft(left, right, lk, rk) ==
    LET shared == (left.cols \cap right.cols) \ (IF lk = rk THEN {lk} ELSE {})
        lname(c) == IF c \in shared THEN SuffixX(c) ELSE c
        rname(c) == IF c \in shared THEN SuffixY(c) ELSE c
        rcols == IF lk = rk THEN right.cols \ {rk} ELSE right.cols
        cs == {lname(c) : c \in left.cols} \cup {rname(c) : c \in rcols}
        matches(l) == SelectSeq(right.rows, LAMBDA r : r[rk] = l[lk])
        joined(l, r, hit) ==
            [c \in cs |->
                IF \E lc \in left.cols : lname(lc) = c
                THEN l[CHOOSE lc \in left.cols : lname(lc) = c]
                ELSE IF hit THEN r[CHOOSE rc \in rcols : rname(rc) = c] ELSE NaN]
        rowsFor(l) ==
            LET m == matches(l)
            IN  IF m = << >> THEN << joined(l, l, FALSE) >>
                ELSE [j \in 1 .. Len(m) |-> joined(l, m[j], TRUE)]
    IN  [cols |-> cs, rows |-> Flatten([i \in 1 .. Len(left.rows) |-> rowsFor(left.rows[i])])]

\* The guard in front of each merge.
CanMerge(rep, right, lk, rk) == ~Empty(right) /\ lk \in rep.cols /\ rk \in right.cols

InitJoin ==
    /\ df_ol \in FramesOver(OrderlineCols, MaxDriving)
    /\ report = df_ol
    /\ pc = "merge_orders"
    /\ script = "report"
    /\ pagesize = DefaultPageSize
    /\ total = 0
    /\ page = 0
    /\ out = << >>
    /\ data = << >>
    /\ lastResp = NoResp
    /\ log = << >>
    /\ result = NoResult
    /\ ep = 0
    /\ args = [start |-> "iso", end |-> "iso"]
    /\ creds = TRUE
    /\ token = "tok"
    /\ collections = NoCollections
    /\ li = 0
    /\ tables = NoTables
    /\ sheets = << >>
    /\ file = NoFile

JoinFrame == <<script, pagesize, total, page, out, data, lastResp, log, result, ep,
               args, creds, token, collections, li, tables, sheets, file, df_ol>>

\* report.merge(df_orders2, on = "orderID", how = "left")
MergeOrders ==
    /\ pc = "merge_orders"
    /\ \E df_orders \in FramesOver(OrderCols, MaxLookup) :
         report' = IF CanMerge(report, df_orders, "orderID", "orderID")
                      THEN MergeLeft(report, df_orders, "orderID", "orderID")
                      ELSE report
    /\ pc' = "merge_staff"
    /\ UNCHANGED JoinFrame

\* report.merge(df_staff, left_on = "userID", right_on = "staff_uid", how = "left")
MergeStaff ==
    /\ pc = "merge_staff"
    /\ \E staff \in FramesOver(StaffCols, MaxLookup) :
         LET df_staff == IF Empty(staff) THEN staff ELSE Rename(staff, "uid", "staff_uid")
         IN  report' = IF CanMerge(report, df_staff, "userID", "staff_uid")
                          THEN MergeLeft(report, df_staff, "userID", "staff_uid")
                          ELSE report
    /\ pc' = "merge_products"
    /\ UNCHANGED JoinFrame

\* report.merge(df_prod, on = "productID", how = "left")
MergeProducts ==
    /\ pc = "merge_products"
    /\ \E products \in FramesOver(ProductCols, MaxLookup) :
         LET df_prod == IF Empty(products) THEN products ELSE Rename(products, "id", "productID")
         IN  report' = IF CanMerge(report, df_prod, "productID", "productID")
                          THEN MergeLeft(report, df_prod, "productID", "productID")
                          ELSE report
    /\ pc' = "merge_salepoints"
    /\ UNCHANGED JoinFrame

\* report.merge(df_sp[["salePointID", "salePointTitle"]].drop_duplicates(),
\*              on = "salePointID", how = "left"); the selection raises
\* KeyError when no salepoint has a title.
MergeSalepoints ==
    /\ pc = "merge_salepoints"
    /\ \E salepoints \in FramesOver(SalepointCols, MaxLookup) :
         LET df_sp == IF Empty(salepoints) THEN salepoints
                      ELSE Rename(salepoints, "title", "salePointTitle")
         IN  IF ~CanMerge(report, df_sp, "salePointID", "salePointID")
                THEN /\ report' = report
                     /\ pc' = "to_excel"
                ELSE IF "salePointTitle" \notin df_sp.cols
                THEN /\ report' = report
                     /\ pc' = "raised"
                ELSE /\ report' = MergeLeft(report,
                                     DropDuplicates(Project(df_sp, {"salePointID", "salePointTitle"})),
                                     "salePointID", "salePointID")
                     /\ pc' = "to_excel"
    /\ UNCHANGED JoinFrame

NextJoin ==
    \/ MergeOrders
    \/ MergeStaff
    \/ MergeProducts
    \/ MergeSalepoints

SpecJoin == InitJoin /\ [][NextJoin]_vars

\* ======================================================================
\* Claims about one paged_get call (SpecFetch)
\* ======================================================================
IsPrefix(s, t) == Len(s) <= Len(t) /\ SubSeq(t, 1, Len(s)) = s

ExpectedRequests(R, N) == IF R % N # 0 THEN (R + N - 1) \div N ELSE (R \div N) + 1

\* The call is over and no page request was answered with an error status.
EndedWithoutHttpError == pc \in {"returned", "raised"}

\* C1: against an endpoint holding R records served in full pages of N
\* followed by the remainder, a call issues ceil(R/N) page requests when
\* R mod N # 0 and R/N + 1 otherwise, for pages 0, 1, 2, ... in order.
C1_RequestCount ==
    EndedWithoutHttpError =>
        /\ Len(Gets(log)) = ExpectedRequests(total, pagesize)
        /\ \A i \in 1 .. Len(Gets(log)) : Gets(log)[i].page = i - 1

\* C2: when every page request succeeds the call returns exactly the
\* endpoint's records in page order (3 records at page size 500: one
\* request, length 3), and out only ever grows by appending.
C2_CollectionComplete ==
    /\ [](EndedWithoutHttpError =>
            /\ result.returned
            /\ result.value = RecordsOf(total)
            /\ (total = 3 /\ pagesize = DefaultPageSize =>
                    Len(Gets(log)) = 1 /\ Len(result.value) = 3))
    /\ [][IsPrefix(out, out')]_vars

\* C3: a successful response carrying the records S as {"data": S} and one
\* carrying them as a bare array are both parsed to S, in both scripts, and
\* neither makes the call fail.
C3_BothFormsNormalize ==
    (lastResp.status = 200 /\ lastResp.form \in {"object", "array"}) =>
        /\ pc # "raised"
        /\ data = lastResp.recs

\* C4: a page request answered with a status >= 400, on the first page or
\* a later one, ends the call at once: that request is the last one issued
\* and nothing is returned.
C4_FailFast ==
    \A i \in 1 .. Len(log) :
        (log[i].kind = "get" /\ log[i].status >= 400) =>
            /\ i = Len(log)
            /\ pc = "exit"
            /\ ~result.returned

C4_Witness ==
    /\ pc = "exit"
    /\ lastResp.status >= 400
    /\ page >= 1
    /\ Len(out) >= 1

\* ======================================================================
\* Claims about pipeline runs (Spec)
\* ======================================================================
RowsOfRun(table) == SelectSeq(table, LAMBDA row : row.loaded_at = "now")

\* Nothing of the current run is in either destination.
NoSinkWrite ==
    /\ Sinks(log) = << >>
    /\ \A k \in 1 .. Len(Paths) : RowsOfRun(tables[k]) = << >>
    /\ sheets = << >>
    /\ ~file.written

\* C5: a 401 from a data endpoint, on any page, aborts the run with nothing
\* of the run written to a sink; a sink write happens only once all five
\* fetches have completed.
C5_UnauthorizedAborts ==
    /\ \A i \in 1 .. Len(log) :
          (log[i].kind = "get" /\ log[i].status = 401) =>
              /\ i = Len(log)
              /\ pc = "exit"
              /\ NoSinkWrite
    /\ ~NoSinkWrite =>
          /\ \A k \in 1 .. Len(Paths) : collections[k].done
          /\ \A i \in 1 .. Len(log) : log[i].kind = "get" => log[i].status = 200

C5_Witness ==
    /\ pc = "exit"
    /\ Len(log) >= 1
    /\ log[Len(log)].kind = "get"
    /\ log[Len(log)].status = 401
    /\ log[Len(log)].ep = Len(Paths)
    /\ log[Len(log)].page = 1

\* C7: token acquisition fails on a non-success status and on a success
\* response without a usable access_token; then no data request is issued,
\* and no data request ever carries a missing or empty bearer token.
C7_TokenRequired ==
    /\ \A i \in 1 .. Len(log) :
          (log[i].kind = "token" /\ (log[i].status >= 400 \/ log[i].token # "tok")) =>
              /\ pc \in {"exit", "raised"}
              /\ Gets(log) = << >>
    /\ \A i \in 1 .. Len(log) :
          log[i].kind = "get" => log[i].token \notin {"", "None", "unset"}

\* C8: every step leaves the rows already in each warehouse table in place;
\* a successful load_df adds exactly the rows of its batch at the end of
\* its table, and an empty batch starts no load job and changes nothing.
C8_AppendOnly ==
    [][\A k \in 1 .. Len(Paths) :
          /\ IsPrefix(tables[k], tables'[k])
          /\ (pc = "load_df" /\ k = li /\ Len(log') > Len(log) /\ log'[Len(log')].status = 200)
                => tables'[k] = tables[k] \o Enrich(collections[k].recs, "now")
          /\ (pc = "load_df" /\ k = li /\ collections[k].recs = << >>)
                => (log' = log /\ tables'[k] = tables[k])
          /\ (pc # "load_df" \/ k # li) => tables'[k] = tables[k]
      ]_vars

\* The records an earlier run loaded, loaded again, are in the table twice;
\* an empty batch left its table as it was.
C8_Witness ==
    /\ pc = "done"
    /\ Len(tables[1]) = 2
    /\ tables[1][1].rec = tables[1][2].rec
    /\ tables[1][1].loaded_at = "earlier"
    /\ tables[1][2].loaded_at = "now"
    /\ collections[2].recs = << >>
    /\ Len(tables[2]) = 1

\* C9: in the warehouse pipeline a failed load is the last sink write of
\* the run: the run ends there, and neither the table of the failed batch
\* nor any later table holds a row of this run.
C9_FailedLoadLeavesNothing ==
    script = "warehouse" =>
        \A i \in 1 .. Len(log) :
            (log[i].kind = "sink" /\ log[i].status >= 400) =>
                /\ i = Len(log)
                /\ pc = "raised"
                /\ \A k \in log[i].ep .. Len(Paths) : RowsOfRun(tables[k]) = << >>

C9_Witness ==
    /\ script = "warehouse"
    /\ pc = "raised"
    /\ Len(log) >= 1
    /\ log[Len(log)].kind = "sink"
    /\ log[Len(log)].status >= 400
    /\ log[Len(log)].ep = 3
    /\ RowsOfRun(tables[1]) # << >>
    /\ collections[4].recs # << >>

\* What the log of a run looks like at any time.
NoRetryLog ==
    LET g == Gets(log)
    IN  /\ Len(TokenCalls(log)) <= 1
        /\ g # << >> => (log[1].kind = "token" /\ log[1].status = 200)
        /\ \A i \in 1 .. Len(g) : g[i].token = token
        /\ g # << >> => (g[1].ep = 1 /\ g[1].page = 0)
        /\ \A i \in 1 .. Len(g) - 1 :
              \/ g[i + 1].ep = g[i].ep /\ g[i + 1].page = g[i].page + 1
              \/ g[i + 1].ep = g[i].ep + 1 /\ g[i + 1].page = 0
        /\ \A i, j \in 1 .. Len(g) : (g[i].ep = g[j].ep /\ g[i].page = g[j].page) => i = j
        /\ \A i, j \in 1 .. Len(log) :
              (log[i].kind = "sink" /\ log[j].kind # "sink") => j < i
        /\ \A i \in 1 .. Len(log) - 1 : log[i].status < 400
        /\ (Len(log) >= 1 /\ log[Len(log)].status >= 400) => pc \in {"exit", "raised"}
        /\ pc = "done" =>
              /\ Len(TokenCalls(log)) = 1
              /\ \A k \in 1 .. Len(Paths) : \E i \in 1 .. Len(g) : g[i].ep = k

\* C10: a run never retries: at most one token request, made before any
\* data request; each (endpoint, page) requested once, endpoints in order
\* with the same token; nothing is issued after the first failing step.
C10_NoRetry ==
    /\ []NoRetryLog
    /\ [][pc \notin Terminal]_vars

C10_Witness ==
    /\ pc = "done"
    /\ \E i \in 1 .. Len(log) : log[i].kind = "get" /\ log[i].page = 1 /\ log[i].ep = 2
    /\ Sinks(log) # << >>

\* ======================================================================
\* Claims about the merges of build_report (SpecJoin)
\* ======================================================================
\* C6: after each of the four left merges, and so in FinalReport, report
\* has as many rows as the orderlines frame, whatever the collections
\* merged in hold, records with equal keys included.
C6_RowCountPreserved ==
    pc \in {"merge_staff", "merge_products", "merge_salepoints", "to_excel"} =>
        Len(report.rows) = Len(df_ol.rows)

====
